---------------------------- MODULE Spec2Model ----------------------------
(***************************************************************************)
(* Model of src/main.py: the concurrent pagination loop of main, the       *)
(* deduplicating process_data, the page fetcher fetch_data and the sink    *)
(* write_to_csv.                                                           *)
(*                                                                         *)
(* A record is modelled by its id and by whether it carries every field    *)
(* that process_data reads (lines 161-180); a row is modelled by its first *)
(* column, the id.  The program's limit (1000) and batch width (10) are    *)
(* scaled down so that the pages can be enumerated; every formula below is *)
(* written in terms of limit and K, never of their values.                 *)
(***************************************************************************)
EXTENDS Integers, Sequences, FiniteSets, TLC

\* main.py:209  limit = 1000, scaled down
limit == 2
\* main.py:216 max_workers=10 and main.py:220 len(futures) >= 10, scaled down
K == 2

\* record ids the arbitrary server draws from
NumIds == 2
\* batches after which the model stops submitting
MaxBatches == 2

MaxPages == MaxBatches * K
\* largest result space of the disjoint server: its short page always lies
\* within the first MaxBatches batches
MaxN == MaxPages * limit - 1

VARIABLES
    pc,        \* position of main: "while", "drain", "tail", "write", "done";
               \* of a caller of process_data alone: "call", "again", "end"
    offset,    \* main.py:210
    all_data,  \* main.py:211
    futures,   \* main.py:212, each future with the state of its worker
    seen_ids,  \* main.py:213
    more_data, \* main.py:214
    yielded,   \* futures that as_completed (line 221) has already yielded
    csv,       \* rows written by write_to_csv
    server,    \* the API behind fetch_data
    requested, \* history: the offsets passed to executor.submit, in order
    hist       \* history: the outcomes of the completions handled since the
               \* current batch was begun, in the order they were handled

vars == <<pc, offset, all_data, futures, seen_ids, more_data, yielded, csv,
          server, requested, hist>>

Min(a, b) == IF a < b THEN a ELSE b

----------------------------------------------------------------------------
\* Records, pages and responses

Ids == 1 .. NumIds

\* complete = FALSE: a field read by lines 161-180 is missing from the record
Records == [id : Ids, complete : BOOLEAN]

RECURSIVE SeqsUpTo(_, _)
SeqsUpTo(S, n) ==
    IF n = 0 THEN {<<>>}
    ELSE LET shorter == SeqsUpTo(S, n - 1)
         IN  shorter \cup {Append(s, x) : s \in {t \in shorter : Len(t) = n - 1}, x \in S}

\* what response.json() can hold: raised = fetch_data raises instead
\* (lines 141-152); hasResults = FALSE: no data.events.results in the body,
\* either because one of the three keys is absent (null = FALSE) or because
\* one of them is present with the value null (null = TRUE)
Failure == [raised |-> TRUE, hasResults |-> FALSE, null |-> FALSE, results |-> <<>>]
Envelope == [raised |-> FALSE, hasResults |-> FALSE, null |-> FALSE, results |-> <<>>]
NullEnvelope == [raised |-> FALSE, hasResults |-> FALSE, null |-> TRUE, results |-> <<>>]
Page(rs) == [raised |-> FALSE, hasResults |-> TRUE, null |-> FALSE, results |-> rs]

\* the server honours limit: a page holds at most limit records
ArbitraryResponses ==
    {Failure, Envelope, NullEnvelope} \cup {Page(rs) : rs \in SeqsUpTo(Records, limit)}

\* the disjoint server: N distinct well-formed records 1..N, the page at
\* offset off holds records off+1 .. min(off+limit, N)
DisjointPage(off, N) ==
    Page([j \in 1 .. (IF N > off THEN Min(limit, N - off) ELSE 0) |->
            [id |-> off + j, complete |-> TRUE]])

\* "flaky": the disjoint server, any request of which may fail
ServerResponses(off) ==
    IF server.kind = "disjoint" THEN {DisjointPage(off, server.N)}
    ELSE IF server.kind = "flaky" THEN {DisjointPage(off, server.N), Failure}
    ELSE ArbitraryResponses

----------------------------------------------------------------------------
\* process_data (lines 155-184)

Row(record) == record.id

\* process_data without the test of line 159
RECURSIVE process_records_nocheck(_, _, _, _)
process_records_nocheck(data, i, processed_data, seen) ==
    IF i > Len(data)
    THEN [raised |-> FALSE, data |-> processed_data, seen_ids |-> seen]
    ELSE IF ~data[i].complete
         THEN [raised |-> TRUE, data |-> <<>>, seen_ids |-> seen]
         ELSE process_records_nocheck(data, i + 1,
                                      Append(processed_data, Row(data[i])),
                                      seen \cup {data[i].id})

\* process_data without the seen_ids.add of line 183
RECURSIVE process_records_noadd(_, _, _, _)
process_records_noadd(data, i, processed_data, seen) ==
    IF i > Len(data)
    THEN [raised |-> FALSE, data |-> processed_data, seen_ids |-> seen]
    ELSE IF data[i].id \in seen
         THEN process_records_noadd(data, i + 1, processed_data, seen)
         ELSE IF ~data[i].complete
              THEN [raised |-> TRUE, data |-> <<>>, seen_ids |-> seen]
              ELSE process_records_noadd(data, i + 1,
                                         Append(processed_data, Row(data[i])),
                                         seen)

RECURSIVE process_records(_, _, _, _)
process_records(data, i, processed_data, seen) ==
    IF i > Len(data)
    THEN [raised |-> FALSE, data |-> processed_data, seen_ids |-> seen]
    ELSE IF data[i].id \in seen
         THEN process_records(data, i + 1, processed_data, seen)
         ELSE IF ~data[i].complete
              \* KeyError while the row is built: processed_data is lost,
              \* the ids added so far stay in the caller's set
              THEN [raised |-> TRUE, data |-> <<>>, seen_ids |-> seen]
              ELSE process_records(data, i + 1,
                                   Append(processed_data, Row(data[i])),
                                   seen \cup {data[i].id})

process_data(result, seen) ==
    \* line 156: .get on None, or line 158: iteration over None, raises
    IF result.null THEN [raised |-> TRUE, data |-> <<>>, seen_ids |-> seen]
    ELSE process_records(IF result.hasResults THEN result.results ELSE <<>>,
                         1, <<>>, seen)

----------------------------------------------------------------------------
\* The body of the try statement, lines 222-230 (inLoop) and 234-240

\* the try body with a failed fetch handled as a page without rows
HandleCompletion_failstop(result, seen, all, more, inLoop) ==
    IF result.raised
    THEN [seen_ids |-> seen, all_data |-> all,
          more_data |-> IF inLoop THEN FALSE ELSE more,
          kind |-> "failed", n |-> 0]
    ELSE LET p == process_data(result, seen)
         IN  IF p.raised
             THEN [seen_ids |-> p.seen_ids, all_data |-> all, more_data |-> more,
                   kind |-> "raised", n |-> 0]
             ELSE [seen_ids |-> p.seen_ids,
                   all_data |-> IF p.data # <<>> THEN Append(all, p.data) ELSE all,
                   more_data |-> IF inLoop /\ Len(p.data) < limit THEN FALSE ELSE more,
                   kind |-> "ok", n |-> Len(p.data)]

\* the try body with the stop test of line 227 written len(data) <= limit
HandleCompletion_le(result, seen, all, more, inLoop) ==
    IF result.raised
    THEN [seen_ids |-> seen, all_data |-> all, more_data |-> more,
          kind |-> "failed", n |-> 0]
    ELSE LET p == process_data(result, seen)
         IN  IF p.raised
             THEN [seen_ids |-> p.seen_ids, all_data |-> all, more_data |-> more,
                   kind |-> "raised", n |-> 0]
             ELSE [seen_ids |-> p.seen_ids,
                   all_data |-> IF p.data # <<>> THEN Append(all, p.data) ELSE all,
                   more_data |-> IF inLoop /\ Len(p.data) <= limit THEN FALSE ELSE more,
                   kind |-> "ok", n |-> Len(p.data)]

\* the try body with the stop test of line 227 written not data
HandleCompletion_empty(result, seen, all, more, inLoop) ==
    IF result.raised
    THEN [seen_ids |-> seen, all_data |-> all, more_data |-> more,
          kind |-> "failed", n |-> 0]
    ELSE LET p == process_data(result, seen)
         IN  IF p.raised
             THEN [seen_ids |-> p.seen_ids, all_data |-> all, more_data |-> more,
                   kind |-> "raised", n |-> 0]
             ELSE [seen_ids |-> p.seen_ids,
                   all_data |-> IF p.data # <<>> THEN Append(all, p.data) ELSE all,
                   more_data |-> IF inLoop /\ Len(p.data) = 0 THEN FALSE ELSE more,
                   kind |-> "ok", n |-> Len(p.data)]

\* the try body with the stop test of line 227 written 0 < len(data) < limit
HandleCompletion_nonempty(result, seen, all, more, inLoop) ==
    IF result.raised
    THEN [seen_ids |-> seen, all_data |-> all, more_data |-> more,
          kind |-> "failed", n |-> 0]
    ELSE LET p == process_data(result, seen)
         IN  IF p.raised
             THEN [seen_ids |-> p.seen_ids, all_data |-> all, more_data |-> more,
                   kind |-> "raised", n |-> 0]
             ELSE [seen_ids |-> p.seen_ids,
                   all_data |-> IF p.data # <<>> THEN Append(all, p.data) ELSE all,
                   more_data |-> IF inLoop /\ 0 < Len(p.data) /\ Len(p.data) < limit
                                 THEN FALSE ELSE more,
                   kind |-> "ok", n |-> Len(p.data)]

\* the try body keeping the rows of a page only while more_data is True
HandleCompletion_discard(result, seen, all, more, inLoop) ==
    IF result.raised
    THEN [seen_ids |-> seen, all_data |-> all, more_data |-> more,
          kind |-> "failed", n |-> 0]
    ELSE LET p == process_data(result, seen)
         IN  IF p.raised
             THEN [seen_ids |-> p.seen_ids, all_data |-> all, more_data |-> more,
                   kind |-> "raised", n |-> 0]
             ELSE [seen_ids |-> p.seen_ids,
                   all_data |-> IF p.data # <<>> /\ more THEN Append(all, p.data) ELSE all,
                   more_data |-> IF inLoop /\ Len(p.data) < limit THEN FALSE ELSE more,
                   kind |-> "ok", n |-> Len(p.data)]

\* the try body with the stop test of line 227 taken on the raw page size
HandleCompletion_raw(result, seen, all, more, inLoop) ==
    IF result.raised
    THEN [seen_ids |-> seen, all_data |-> all, more_data |-> more,
          kind |-> "failed", n |-> 0]
    ELSE LET p == process_data(result, seen)
         IN  IF p.raised
             THEN [seen_ids |-> p.seen_ids, all_data |-> all, more_data |-> more,
                   kind |-> "raised", n |-> 0]
             ELSE [seen_ids |-> p.seen_ids,
                   all_data |-> IF p.data # <<>> THEN Append(all, p.data) ELSE all,
                   more_data |-> IF inLoop /\ Len(result.results) < limit THEN FALSE ELSE more,
                   kind |-> "ok", n |-> Len(p.data)]

HandleCompletion(result, seen, all, more, inLoop) ==
    IF result.raised
    THEN [seen_ids |-> seen, all_data |-> all, more_data |-> more,
          kind |-> "failed", n |-> 0]
    ELSE LET p == process_data(result, seen)
         IN  IF p.raised
             THEN [seen_ids |-> p.seen_ids, all_data |-> all, more_data |-> more,
                   kind |-> "raised", n |-> 0]
             ELSE [seen_ids |-> p.seen_ids,
                   all_data |-> IF p.data # <<>> THEN Append(all, p.data) ELSE all,
                   more_data |-> IF inLoop /\ Len(p.data) < limit THEN FALSE ELSE more,
                   kind |-> "ok", n |-> Len(p.data)]

PageIndex(off) == off \div limit

Entry(off, h) == [page |-> PageIndex(off), kind |-> h.kind, n |-> h.n]

----------------------------------------------------------------------------
\* Initial states

InitMain ==
    /\ pc = "while"
    /\ offset = 0
    /\ all_data = <<>>
    /\ futures = <<>>
    /\ seen_ids = {}
    /\ more_data = TRUE
    /\ yielded = {}
    /\ csv = <<>>
    /\ requested = <<>>
    /\ hist = <<>>

Init ==
    /\ InitMain
    /\ server = [kind |-> "arbitrary", N |-> 0, content |-> <<>>]

InitDisjoint ==
    /\ InitMain
    /\ \E n \in 0 .. MaxN : server = [kind |-> "disjoint", N |-> n, content |-> <<>>]

InitFixed ==
    /\ InitMain
    /\ server = [kind |-> "fixed", N |-> 0, content |-> <<>>]

\* process_data on its own: any returned response, any seen_ids
InitAggregator ==
    /\ pc = "call"
    /\ offset = 0
    /\ all_data = <<>>
    /\ \E r \in ArbitraryResponses \ {Failure} :
          futures = <<[offset |-> 0, state |-> "finished", result |-> r]>>
    /\ seen_ids \in SUBSET Ids
    /\ more_data = TRUE
    /\ yielded = {}
    /\ csv = <<>>
    /\ requested = <<>>
    /\ hist = <<>>
    /\ server = [kind |-> "arbitrary", N |-> 0, content |-> <<>>]

InitFlaky ==
    /\ InitMain
    /\ \E n \in 0 .. MaxN : server = [kind |-> "flaky", N |-> n, content |-> <<>>]

----------------------------------------------------------------------------
\* Actions

\* Submit with the test of line 220 written len(futures) > K
Submit_gt ==
    /\ pc = "while"
    /\ more_data
    /\ offset < MaxPages * limit
    /\ futures' = Append(futures, [offset |-> offset, state |-> "running",
                                   result |-> Failure])
    /\ requested' = Append(requested, offset)
    /\ offset' = offset + limit
    /\ pc' = IF Len(futures) + 1 > K THEN "drain" ELSE "while"
    /\ hist' = IF futures = <<>> THEN <<>> ELSE hist
    /\ UNCHANGED <<all_data, seen_ids, more_data, yielded, csv, server>>

\* Submit with offset += limit of line 219 done only when the batch is full
Submit_late ==
    /\ pc = "while"
    /\ more_data
    /\ offset < MaxPages * limit
    /\ futures' = Append(futures, [offset |-> offset, state |-> "running",
                                   result |-> Failure])
    /\ requested' = Append(requested, offset)
    /\ offset' = IF Len(futures) + 1 >= K THEN offset + limit ELSE offset
    /\ pc' = IF Len(futures) + 1 >= K THEN "drain" ELSE "while"
    /\ hist' = IF futures = <<>> THEN <<>> ELSE hist
    /\ UNCHANGED <<all_data, seen_ids, more_data, yielded, csv, server>>

\* lines 217-220: one iteration of the while loop up to the batch test
Submit ==
    /\ pc = "while"
    /\ more_data
    /\ offset < MaxPages * limit
    /\ futures' = Append(futures, [offset |-> offset, state |-> "running",
                                   result |-> Failure])
    /\ requested' = Append(requested, offset)
    /\ offset' = offset + limit
    /\ pc' = IF Len(futures) + 1 >= K THEN "drain" ELSE "while"
    /\ hist' = IF futures = <<>> THEN <<>> ELSE hist
    /\ UNCHANGED <<all_data, seen_ids, more_data, yielded, csv, server>>

\* lines 217-220 from the MaxPages-th page on: the loop has no bound of its
\* own, the model keeps offset at MaxPages * limit, which stands for every
\* offset from there on (all of them beyond the result space)
SubmitBeyond ==
    /\ pc = "while"
    /\ more_data
    /\ offset >= MaxPages * limit
    /\ futures' = Append(futures, [offset |-> offset, state |-> "running",
                                   result |-> Failure])
    /\ pc' = IF Len(futures) + 1 >= K THEN "drain" ELSE "while"
    /\ hist' = IF futures = <<>> THEN <<>> ELSE hist
    /\ UNCHANGED <<offset, all_data, seen_ids, more_data, yielded, csv, server,
                   requested>>

\* fetch_data with the aggregation moved onto the worker: it adds the ids of
\* its page to seen_ids itself
fetch_data_shared(i) ==
    /\ i \in DOMAIN futures
    /\ futures[i].state = "running"
    /\ \E r \in ServerResponses(futures[i].offset) :
          /\ futures' = [futures EXCEPT ![i] = [@ EXCEPT !.state = "finished",
                                                         !.result = r]]
          /\ seen_ids' = seen_ids \cup {r.results[k].id : k \in DOMAIN r.results}
          /\ server' = server
    /\ UNCHANGED <<pc, offset, all_data, more_data, yielded, csv, hist, requested>>

\* lines 124-152: a worker's fetch_data returns or raises
fetch_data(i) ==
    /\ i \in DOMAIN futures
    /\ futures[i].state = "running"
    /\ \E r \in ServerResponses(futures[i].offset) :
          /\ futures' = [futures EXCEPT ![i] = [@ EXCEPT !.state = "finished",
                                                         !.result = r]]
          /\ server' = IF server.kind = "fixed"
                       THEN [server EXCEPT !.content =
                               [p \in DOMAIN server.content \cup {PageIndex(futures[i].offset)} |->
                                  IF p = PageIndex(futures[i].offset) THEN r
                                  ELSE server.content[p]]]
                       ELSE server
    /\ UNCHANGED <<pc, offset, all_data, seen_ids, more_data, yielded, csv, hist, requested>>

\* lines 221-230: as_completed yields a finished future and main handles it
Consume(i) ==
    /\ pc = "drain"
    /\ i \in DOMAIN futures
    /\ i \notin yielded
    /\ futures[i].state = "finished"
    /\ LET h == HandleCompletion(futures[i].result, seen_ids, all_data, more_data, TRUE)
       IN  /\ seen_ids' = h.seen_ids
           /\ all_data' = h.all_data
           /\ more_data' = h.more_data
           /\ hist' = Append(hist, Entry(futures[i].offset, h))
    /\ yielded' = yielded \cup {i}
    /\ UNCHANGED <<pc, offset, futures, csv, server, requested>>

\* line 231 reached as soon as one completion was handled
EndDrain_early ==
    /\ pc = "drain"
    /\ yielded # {}
    /\ futures' = <<>>
    /\ yielded' = {}
    /\ pc' = "while"
    /\ UNCHANGED <<offset, all_data, seen_ids, more_data, csv, server, hist, requested>>

\* the end of the for loop without the futures = [] of line 231
EndDrain_keep ==
    /\ pc = "drain"
    /\ yielded = DOMAIN futures
    /\ futures' = futures
    /\ yielded' = {}
    /\ pc' = "while"
    /\ UNCHANGED <<offset, all_data, seen_ids, more_data, csv, server, hist, requested>>

\* line 231: the for loop is exhausted, futures = []
EndDrain ==
    /\ pc = "drain"
    /\ yielded = DOMAIN futures
    /\ futures' = <<>>
    /\ yielded' = {}
    /\ pc' = "while"
    /\ UNCHANGED <<offset, all_data, seen_ids, more_data, csv, server, hist, requested>>

\* line 217: the while test fails
ExitWhile ==
    /\ pc = "while"
    /\ ~more_data
    /\ pc' = "tail"
    /\ UNCHANGED <<offset, all_data, futures, seen_ids, more_data, yielded, csv,
                   server, hist, requested>>

\* lines 233-240: the completions of the futures left over, in some
\* completion order
RECURSIVE DrainRest(_, _, _)
DrainRest(order, i, st) ==
    IF i > Len(order) THEN st
    ELSE LET f == futures[order[i]]
             h == HandleCompletion(f.result, st.seen_ids, st.all_data, more_data, FALSE)
         IN  DrainRest(order, i + 1,
                       [seen_ids |-> h.seen_ids, all_data |-> h.all_data,
                        hist |-> Append(st.hist, Entry(f.offset, h))])

Orders(n) == {o \in [1 .. n -> 1 .. n] : \A a, b \in 1 .. n : o[a] = o[b] => a = b}

TailDrain ==
    /\ pc = "tail"
    /\ \A i \in DOMAIN futures : futures[i].state = "finished"
    /\ \E order \in Orders(Len(futures)) :
          LET st == DrainRest(order, 1, [seen_ids |-> seen_ids, all_data |-> all_data,
                                         hist |-> hist])
          IN  /\ seen_ids' = st.seen_ids
              /\ all_data' = st.all_data
              /\ hist' = st.hist
    /\ pc' = "write"
    /\ UNCHANGED <<offset, futures, more_data, yielded, csv, server, requested>>

\* lines 204-205: the rows of every batch, in order
RECURSIVE Flatten(_)
Flatten(batches) ==
    IF batches = <<>> THEN <<>>
    ELSE Head(batches) \o Flatten(Tail(batches))

\* line 242 and lines 187-205
write_to_csv ==
    /\ pc = "write"
    /\ csv' = Flatten(all_data)
    /\ pc' = "done"
    /\ UNCHANGED <<offset, all_data, futures, seen_ids, more_data, yielded,
                   server, hist, requested>>

\* lines 155-184 called twice with the same result and the same set; the
\* list returned by each call is kept in all_data, its outcome in hist
call_process_data ==
    /\ pc \in {"call", "again"}
    /\ LET p == process_data(futures[1].result, seen_ids)
       IN  /\ seen_ids' = p.seen_ids
           /\ all_data' = Append(all_data, p.data)
           /\ hist' = Append(hist, [page |-> 0,
                                    kind |-> IF p.raised THEN "raised" ELSE "ok",
                                    n |-> Len(p.data)])
    /\ pc' = IF pc = "call" THEN "again" ELSE "end"
    /\ UNCHANGED <<offset, futures, more_data, yielded, csv, server, requested>>

Next ==
    \/ Submit
    \/ \E i \in 1 .. K : fetch_data(i)
    \/ \E i \in 1 .. K : Consume(i)
    \/ EndDrain
    \/ ExitWhile
    \/ TailDrain
    \/ write_to_csv

Spec == Init /\ [][Next]_vars

NextAggregator == call_process_data

SpecAggregator == InitAggregator /\ [][NextAggregator]_vars

\* the unbounded loop: main always takes its next step, and every submitted
\* fetch completes
NextLive == Next \/ SubmitBeyond

SpecLive ==
    /\ InitFlaky
    /\ [][NextLive]_vars
    /\ WF_vars(Submit \/ SubmitBeyond \/ (\E i \in 1 .. K : Consume(i)) \/ EndDrain
                  \/ ExitWhile \/ TailDrain \/ write_to_csv)
    /\ \A i \in 1 .. K : WF_vars(fetch_data(i))

SpecDisjoint == InitDisjoint /\ [][Next]_vars

SpecFixed == InitFixed /\ [][Next]_vars

----------------------------------------------------------------------------
\* Notions the properties share

RowsOf(batches) == {Flatten(batches)[k] : k \in DOMAIN Flatten(batches)}

Distinct(rows) == \A a, b \in DOMAIN rows : rows[a] = rows[b] => a = b

\* the step handles the completion of futures[i] inside the while loop
Handles(i) ==
    /\ pc = "drain"
    /\ i \in DOMAIN futures
    /\ i \notin yielded
    /\ yielded' = yielded \cup {i}

\* a page of the batch in hand was processed and gave fewer than limit rows
ShortSeen == \E k \in DOMAIN hist : hist[k].kind = "ok" /\ hist[k].n < limit

\* a batch has been drained completely and the while test is next
Drained == pc = "while" /\ futures = <<>> /\ offset > 0

\* the first page of the disjoint server with fewer than limit records
ShortPage == server.N \div limit

----------------------------------------------------------------------------
\* C1: no record id occurs in more than one row of all_data, in every
\* reachable state, nor in the rows handed to write_to_csv.
C1_UniqueIds == Distinct(Flatten(all_data)) /\ Distinct(csv)

\* the same id twice inside one page and once more in another page of the
\* batch, both pages handled
C1_Witness ==
    /\ pc = "drain"
    /\ \E i, j \in yielded :
          /\ i # j
          /\ \E r \in Records :
                /\ r.complete
                /\ futures[i].result.results = <<r, r>>
                /\ futures[j].result.results = <<r>>
                /\ r.id \in RowsOf(all_data)

\* C2 as stated: when the first short page is the n-th page, exactly n
\* fetches are submitted in the whole run.
C2_ExactlyN == pc = "done" => offset = limit * (ShortPage + 1)

\* C2 amended: fetches are submitted in whole batches of K, the batch holding
\* the first short page is the last one: no offset beyond that batch is ever
\* requested and the run submits K * (ShortPage \div K + 1) fetches.
C2_StopsAfterShortBatch ==
    /\ offset <= limit * K * (ShortPage \div K + 1)
    /\ \A i \in DOMAIN futures : futures[i].offset < limit * K * (ShortPage \div K + 1)
    /\ pc \in {"tail", "write", "done"} => offset = limit * K * (ShortPage \div K + 1)

\* pages of sizes limit, limit, 1: the short page is the third
C2_Witness == pc = "done" /\ server.N = 2 * limit + 1 /\ offset > 2 * limit

\* C3: once a batch is drained, main submits a further fetch if and only if
\* no processed page of the batch gave fewer than limit accepted rows, and
\* from the moment a page gave fewer no fetch is submitted.
C3_TerminationDecision ==
    [][ /\ Drained => /\ more_data <=> ~ShortSeen
                      /\ offset' # offset => ~ShortSeen
                      /\ pc' = "tail" => ShortSeen
        /\ ShortSeen => offset' = offset /\ Len(futures') <= Len(futures)
      ]_vars

\* a first batch without a short page was followed by a second batch, which
\* had one and ended the run
C3_Witness == pc = "tail" /\ offset = 2 * K * limit /\ ShortSeen

\* C4 as stated: a successfully fetched page of exactly limit raw records,
\* one of them with an id already in seen_ids, stops pagination.
C4_FullPageWithSeenIdStops ==
    [][ \A i \in 1 .. K :
          ( /\ Handles(i)
            /\ ~futures[i].result.raised
            /\ Len(futures[i].result.results) = limit
            /\ \E k \in DOMAIN futures[i].result.results :
                  futures[i].result.results[k].id \in seen_ids )
          => more_data' = FALSE
      ]_vars

\* the batch in hand: no processed page gave fewer than limit rows, and no
\* page raised in process_data
OnlyFailedShort ==
    \A k \in DOMAIN hist :
       \/ hist[k].kind = "failed"
       \/ hist[k].kind = "ok" /\ hist[k].n >= limit

\* C5: handling a failed fetch leaves more_data as it was, and a drained
\* batch whose only pages under limit accepted rows are failed pages does
\* not end the loop: more_data is still TRUE and the while loop is not left.
C5_FailureIsNotShortPage ==
    [][ /\ \A i \in 1 .. K :
             Handles(i) /\ futures[i].result.raised => more_data' = more_data
        /\ Drained /\ OnlyFailedShort => more_data /\ pc' # "tail"
      ]_vars

\* a drained batch with a failed page and a full page, the loop going on
C5_Witness ==
    /\ Drained
    /\ more_data
    /\ \E k \in DOMAIN hist : hist[k].kind = "failed"
    /\ \E k \in DOMAIN hist : hist[k].kind = "ok" /\ hist[k].n = limit

\* C6: handling a failed fetch changes neither seen_ids nor all_data and
\* leaves main in the drain loop, and the drain loop is left only for the
\* while test and only once every page of the batch has been handled.
C6_FailureIsolated ==
    [][ /\ \A i \in 1 .. K :
             Handles(i) /\ futures[i].result.raised
             => seen_ids' = seen_ids /\ all_data' = all_data /\ pc' = "drain"
        /\ pc = "drain" /\ pc' # "drain"
             => /\ pc' = "while"
                /\ Len(hist) = K
                /\ {hist[k].page : k \in DOMAIN hist}
                     = {PageIndex(futures[i].offset) : i \in DOMAIN futures}
      ]_vars

\* a failed page handled first, then a page of the same batch whose rows
\* were accepted
C6_Witness ==
    /\ Drained
    /\ Len(hist) >= 2
    /\ hist[1].kind = "failed"
    /\ hist[Len(hist)].kind = "ok"
    /\ hist[Len(hist)].n > 0
    /\ all_data # <<>>

\* C7 as stated: when a fetched page holds a record that cannot be
\* normalized, every well-formed record of the page whose id was not in
\* seen_ids is accepted into all_data.
C7_MalformedRecordSkipped ==
    [][ \A i \in 1 .. K :
          ( /\ Handles(i)
            /\ ~futures[i].result.raised
            /\ \E k \in DOMAIN futures[i].result.results :
                  ~futures[i].result.results[k].complete )
          => \A k \in DOMAIN futures[i].result.results :
                ( /\ futures[i].result.results[k].complete
                  /\ futures[i].result.results[k].id \notin seen_ids )
                => futures[i].result.results[k].id \in RowsOf(all_data')
      ]_vars

\* C8 as stated: seen_ids is exactly the set of ids of the rows of all_data,
\* each of them in one row.
C8_SeenIdsConsistent ==
    /\ seen_ids = RowsOf(all_data)
    /\ Len(Flatten(all_data)) = Cardinality(seen_ids)

\* The run of main over the recorded pages with every batch's completions
\* arriving in the order of submission: p is the next page, a page the
\* recorded run never requested counts as requested by this one.
RefPage(content, p) == IF p \in DOMAIN content THEN content[p] ELSE Failure

RECURSIVE RefRun(_, _, _, _)
RefRun(content, p, seen, more) ==
    IF p % K = 0 /\ ~more THEN [seen_ids |-> seen, pages |-> p]
    ELSE IF p >= MaxPages THEN [seen_ids |-> seen, pages |-> p + K]
    ELSE LET h == HandleCompletion(RefPage(content, p), seen, <<>>, more, TRUE)
         IN  RefRun(content, p + 1, h.seen_ids, h.more_data)

\* C9 as stated: with the content of every page fixed, every completion
\* order ends with the seen_ids and the requested offsets of the run whose
\* completions arrive in the order of submission.
C9_OrderIndependent ==
    pc = "done" =>
       LET ref == RefRun(server.content, 0, {}, TRUE)
       IN  /\ seen_ids = ref.seen_ids
           /\ offset = ref.pages * limit

\* C10: against the disjoint server, whatever the interleaving, the run ends
\* with seen_ids the whole result space and every record written once.
C10_DisjointComplete ==
    pc = "done" =>
       /\ seen_ids = 1 .. server.N
       /\ Cardinality(seen_ids) = server.N
       /\ Len(csv) = server.N
       /\ {csv[k] : k \in DOMAIN csv} = 1 .. server.N

\* a result space of more than one batch, written in full
C10_Witness ==
    /\ pc = "done"
    /\ server.kind = "disjoint"
    /\ server.N > K * limit
    /\ Len(csv) = server.N
    /\ Len(all_data) > K

\* C11 as stated: whatever the result space, the completion order and the
\* failures, main eventually reaches the end and calls write_to_csv.
C11_EventuallyDone == <>(pc = "done")

\* C12 as stated: process_data called a second time with the same raw page
\* and the same seen_ids returns an empty list and leaves seen_ids as it
\* is, and no row is returned twice over the two calls.
C12_DedupIdempotent ==
    [][ pc = "again" /\ futures[1].result.hasResults
        => /\ hist'[2].kind = "ok"
           /\ all_data'[2] = <<>>
           /\ seen_ids' = seen_ids
           /\ Distinct(Flatten(all_data'))
      ]_vars

WellFormed(rs) == \A k \in DOMAIN rs : rs[k].complete

\* the rows of the first k records of rs that are first occurrences of an
\* id which is not in seen, in the order of rs
RECURSIVE FirstNew(_, _, _)
FirstNew(rs, seen, k) ==
    IF k = 0 THEN <<>>
    ELSE IF rs[k].id \notin seen /\ \A j \in 1 .. k - 1 : rs[j].id # rs[k].id
         THEN Append(FirstNew(rs, seen, k - 1), Row(rs[k]))
         ELSE FirstNew(rs, seen, k - 1)

\* C16: on a page of well-formed records process_data returns the rows of
\* the records whose id is neither in seen_ids nor earlier in the page, in
\* page order, and seen_ids grows by exactly the ids of the returned rows.
C16_AggregatorResult ==
    [][ ( /\ pc \in {"call", "again"}
          /\ futures[1].result.hasResults
          /\ WellFormed(futures[1].result.results) )
        => LET rs == futures[1].result.results
               got == all_data'[Len(all_data')]
           IN  /\ hist'[Len(hist')].kind = "ok"
               /\ got = FirstNew(rs, seen_ids, Len(rs))
               /\ seen_ids' = seen_ids \cup {got[k] : k \in DOMAIN got}
               /\ \A k \in DOMAIN got : got[k] \notin seen_ids
      ]_vars

\* a page holding the same id twice, called with that id unseen: one row
C16_Witness ==
    /\ pc = "again"
    /\ \E r \in Records :
          /\ r.complete
          /\ futures[1].result.results = <<r, r>>
          /\ all_data = <<(<<r.id>>)>>
          /\ seen_ids = {r.id}

\* the step is the return of a worker's fetch_data
WorkerStep ==
    \E i \in DOMAIN futures :
       /\ futures[i].state = "running"
       /\ i \in DOMAIN futures'
       /\ futures'[i].state = "finished"

\* C13: a step of a fetch worker changes none of seen_ids, all_data, offset
\* and more_data; seen_ids and all_data change only in a step of main inside
\* one of its two completion loops, one completion at a time in the while
\* loop, and no worker moves in that step.
C13_SingleWriter ==
    [][ /\ WorkerStep => UNCHANGED <<seen_ids, all_data, offset, more_data, pc, yielded>>
        /\ (seen_ids' # seen_ids \/ all_data' # all_data)
             => /\ pc \in {"drain", "tail"}
                /\ futures' = futures
                /\ pc = "drain" => Cardinality(yielded' \ yielded) = 1
      ]_vars

\* a worker still running while main has already aggregated a page of the
\* same batch
C13_Witness ==
    /\ pc = "drain"
    /\ seen_ids # {}
    /\ all_data # <<>>
    /\ \E i \in DOMAIN futures : futures[i].state = "running"

\* the batch a page belongs to
BatchOf(off) == PageIndex(off) \div K

\* C14: at most K fetches are submitted and not yet consumed, and a fetch is
\* submitted only when the list holds fewer than K futures, none yielded,
\* all of the batch of the new one, and every page of the batch before has
\* had its completion handled.
C14_BoundedConcurrency ==
    /\ [](Len(futures) - Cardinality(yielded) <= K /\ Len(futures) <= K)
    /\ [][ Len(futures') > Len(futures)
           => /\ yielded = {}
              /\ Len(futures) < K
              /\ \A i \in DOMAIN futures' :
                    BatchOf(futures'[i].offset) = BatchOf(offset)
              /\ futures = <<>> /\ offset > 0
                    => {hist[k].page : k \in DOMAIN hist}
                         = {p \in 0 .. PageIndex(offset) - 1 : p \div K = BatchOf(offset) - 1}
         ]_vars

\* the second batch in flight: K fetches outstanding, none consumed
C14_Witness ==
    /\ pc = "drain"
    /\ Len(futures) = K
    /\ yielded = {}
    /\ Len(requested) = 2 * K
    /\ \A i \in DOMAIN futures : futures[i].state = "running"

\* C15: the n-th fetch submitted has offset (n-1) * limit, so the offsets
\* submitted are strictly increasing and none is requested twice, not even
\* that of a page whose fetch failed; the futures in hand are the last ones
\* submitted.
C15_Offsets ==
    /\ \A n \in DOMAIN requested : requested[n] = (n - 1) * limit
    /\ \A m, n \in DOMAIN requested : m < n => requested[m] + limit <= requested[n]
    /\ offset = Len(requested) * limit
    /\ \A i \in DOMAIN futures :
          futures[i].offset = requested[Len(requested) - Len(futures) + i]

\* a second batch submitted after a batch with a failed page: 2K offsets
C15_Witness ==
    /\ Len(requested) = 2 * K
    /\ pc = "drain"
    /\ \E i \in yielded : futures[i].result.raised
    /\ \E k \in DOMAIN hist : hist[k].kind = "failed"

\* C17: once the while loop is left the futures list is empty and the
\* number of fetches submitted is a positive multiple of K, and the drain
\* loop after the while loop handles no completion: it changes neither
\* seen_ids nor all_data nor the history of handled completions.
C17_FullBatchesOnly ==
    /\ [](pc \in {"tail", "write", "done"}
            => /\ futures = <<>>
               /\ Len(requested) > 0
               /\ Len(requested) % K = 0)
    /\ [][pc = "tail" => UNCHANGED <<seen_ids, all_data, hist>>]_vars

\* a run of two batches that has gone through the second drain loop
C17_Witness == pc = "write" /\ Len(requested) = 2 * K /\ all_data # <<>>

\* C18: more_data, once False, stays False; a completion handled after the
\* stop was signalled is processed like any other: main stays in the drain
\* loop, and when process_data returns, the ids it accepted are exactly the
\* rows that all_data gains; the loop ends only after all K completions.
C18_DrainAfterStop ==
    [][ /\ ~more_data => ~more_data'
        /\ \A i \in 1 .. K :
             Handles(i) /\ ~more_data
             => /\ pc' = "drain"
                /\ Len(hist') = Len(hist) + 1
                /\ hist'[Len(hist')].kind = "ok"
                     => /\ seen_ids' \ seen_ids = RowsOf(all_data') \ RowsOf(all_data)
                        /\ Len(Flatten(all_data'))
                             = Len(Flatten(all_data)) + Cardinality(seen_ids' \ seen_ids)
                        /\ Cardinality(seen_ids' \ seen_ids) = hist'[Len(hist')].n
        /\ pc = "drain" /\ pc' # "drain" => Len(hist) = K
      ]_vars

\* a short page handled first, then a page of the batch whose rows were kept
C18_Witness ==
    /\ Drained
    /\ ~more_data
    /\ Len(hist) >= 2
    /\ hist[1].kind = "ok"
    /\ hist[1].n < limit
    /\ hist[Len(hist)].kind = "ok"
    /\ hist[Len(hist)].n > 0
    /\ Len(Flatten(all_data)) = hist[1].n + hist[Len(hist)].n

\* C19: against the disjoint server a finished run has submitted
\* K * (floor(floor(N / limit) / K) + 1) fetches, those of the batches up to
\* the one holding page floor(N / limit).
C19_FetchCount ==
    pc = "done" =>
       /\ Len(requested) = K * ((server.N \div limit) \div K + 1)
       /\ requested[Len(requested)] = (K * (BatchOf(server.N) + 1) - 1) * limit

\* N a multiple of K * limit: the first short page is the empty first page
\* of the second batch
C19_Witness ==
    /\ pc = "done"
    /\ server.kind = "disjoint"
    /\ server.N = K * limit
    /\ Len(requested) = 2 * K

\* C20 as stated: a returned response without data.events.results leaves
\* seen_ids and all_data unchanged and signals the stop.
C20_NoResultsIsEmptyPage ==
    [][ \A i \in 1 .. K :
          ( /\ Handles(i)
            /\ ~futures[i].result.raised
            /\ ~futures[i].result.hasResults )
          => /\ seen_ids' = seen_ids
             /\ all_data' = all_data
             /\ more_data' = FALSE
      ]_vars

\* C20 amended: a returned response in which one of the keys data, events,
\* results is absent is handled as an empty page, state unchanged and stop
\* signalled; one in which such a key is null makes process_data raise: the
\* state is unchanged as well, but more_data is left as it was.
C20_AbsentKeysStopNullKeysDoNot ==
    [][ \A i \in 1 .. K :
          ( /\ Handles(i)
            /\ ~futures[i].result.raised
            /\ ~futures[i].result.hasResults )
          => /\ seen_ids' = seen_ids
             /\ all_data' = all_data
             /\ ~futures[i].result.null => more_data' = FALSE
             /\ futures[i].result.null => more_data' = more_data
      ]_vars

\* both kinds of response handled in one batch, the stop signalled
C20_Witness ==
    /\ pc = "drain"
    /\ ~more_data
    /\ \E i, j \in yielded :
          /\ futures[i].result = Envelope
          /\ futures[j].result = NullEnvelope

============================================================================
